---- MODULE Spec2Model ----
(***************************************************************************)
(* Verification model of the validator ejector: the job orchestrator       *)
(* (services/job-processor/service.ts), the message reconciliation         *)
(* (services/messages-processor/service.ts, message-reloader) and the      *)
(* event verification chain (execution-api service).                       *)
(*                                                                         *)
(* JavaScript values are modelled as follows: `undefined` for the cursor   *)
(* is the value Undefined, for which every relational comparison is false  *)
(* (JsGt); promise outcomes are the strings "ok" / "throw"; a list index   *)
(* ix is 0-based as in the source, so the event at ix is events[ix + 1].   *)
(***************************************************************************)
EXTENDS Integers, Sequences, FiniteSets, TLC

----------------------------------------------------------------------------
(* Bounds of the model *)

\* number of entries of the hard-coded validatorsToEject list kept by the model
NumEvents == 3

\* number of distinct message files the message source may hold
NumFiles == 2

\* largest number of ValidatorExitRequest logs eth_getLogs answers with
MaxFetched == 2

----------------------------------------------------------------------------
(* Program constants *)

\* validatorIndex of the first entry of the hard-coded list
FirstValidatorIndex == 59121

\* the value of an unset globalThis.processExitCount
Undefined == -1

ForkVersions == {"fork1", "fork2"}
CapellaVersion == "capella"

----------------------------------------------------------------------------
(* Small helpers *)

\* JavaScript `a > b` where a may be undefined: undefined > b is false
JsGt(a, b) == a # Undefined /\ a > b

\* JavaScript truthiness of a returned value
Truthy(v) == v \notin {"undefined", "false"}

----------------------------------------------------------------------------
(* Exit-request events: execution-api logs() *)

Pubkey(index) == <<"pubkey", index>>

\* the hard-coded list that logs() returns (1503 entries in the source,
\* the first NumEvents of them here)
validatorsToEject ==
    [i \in 1..NumEvents |->
        [validatorIndex |-> FirstValidatorIndex + (i - 1),
         validatorPubkey |-> Pubkey(FirstValidatorIndex + (i - 1))]]

EventIndices == {validatorsToEject[i].validatorIndex : i \in 1..NumEvents}

\* the k-th ValidatorExitRequest log of the block range, as the node returns
\* it; `genuine` says whether verifyEvent accepts it (the chain of checks
\* itself is the subject of SpecVerify)
ExitRequestLog(k, genuine) ==
    [validatorIndex |-> FirstValidatorIndex + (k - 1),
     validatorPubkey |-> Pubkey(FirstValidatorIndex + (k - 1)),
     genuine |-> genuine]

\* the `result` lists eth_getLogs may answer with: the first n logs of the
\* block range in emission order, each of them genuine or not
RECURSIVE LogResults(_)
LogResults(n) ==
    IF n = 0 THEN {<<>>}
    ELSE LET shorter == LogResults(n - 1) IN
         shorter \cup
            {Append(r, ExitRequestLog(n, g)) :
                r \in {q \in shorter : Len(q) = n - 1}, g \in BOOLEAN}

\* the event logs() makes of a log: validatorsToEject.push({...})
EventOf(log) ==
    [validatorIndex |-> log.validatorIndex,
     validatorPubkey |-> log.validatorPubkey]

----------------------------------------------------------------------------
(* Message files of the source folder *)

\* fork domains a pre-signed exit message may have been signed under
SignedForks == ForkVersions \cup {CapellaVersion}

\* a parseable exit message file for validator `index` signed under `fork`
ExitContent(index, fork) ==
    [kind |-> "exit", validator_index |-> index, signature |-> fork]

EmptyContent == [kind |-> "empty", validator_index |-> 0, signature |-> "none"]
UnparseableContent ==
    [kind |-> "unparseable", validator_index |-> 0, signature |-> "none"]

\* an encrypted file that decryptMessage throws on
UndecryptableContent ==
    [kind |-> "undecryptable", validator_index |-> 0, signature |-> "none"]

\* JSON that exitOrEthDoExitDTO rejects
InvalidShapeContent ==
    [kind |-> "invalidShape", validator_index |-> 0, signature |-> "none"]

\* the validator of message file number f when every validator has its own
\* file: the files are those of the last NumFiles validators of the list
FileIndex(f) == FirstValidatorIndex + (NumEvents - NumFiles) + (f - 1)

FileIndices == {FileIndex(f) : f \in 1..NumFiles}

\* what file number f of the source may contain. The first two files range
\* over every case: a message of the file's own validator or a further
\* message of the first validator (two files may carry a message for the
\* same validator), signed under any fork, or a file that is no message.
\* The files after them hold a message of their own validator.
FileContents(f) ==
    IF f <= 2
    THEN {ExitContent(v, fork) :
            v \in {FileIndex(1), FileIndex(f)}, fork \in SignedForks}
         \cup {EmptyContent, UnparseableContent}
         \cup (IF f = 2 THEN {UndecryptableContent, InvalidShapeContent} ELSE {})
    ELSE {ExitContent(FileIndex(f), "fork1")}

\* what consensusApi.validatorInfo may answer for a validator index
InfoAnswers == {"active", "exiting", "throw"}

\* readFolder() and the consensus node: every listing of the first n files of
\* the source, in file name order, with the validatorInfo answers for the
\* validators of the listed messages (contents drawn from `contents`, answers
\* from `answers`)
RECURSIVE SourcesUpTo(_, _, _)
SourcesUpTo(n, contents, answers) ==
    IF n = 0
    THEN {[folder |-> <<>>,
           validatorInfo |-> [v \in FileIndices |-> "active"]]}
    ELSE LET rest == SourcesUpTo(n - 1, contents, answers) IN
         rest \cup UNION {
           {[folder |-> Append(src.folder, [filename |-> n, content |-> c]),
             validatorInfo |->
                IF c.kind = "exit"
                THEN [src.validatorInfo EXCEPT ![c.validator_index] = a]
                ELSE src.validatorInfo] :
                src \in rest,
                a \in IF c.kind = "exit" THEN answers ELSE {"active"}} :
           c \in FileContents(n) \cap contents}

\* createHash('sha256').update(content).digest('hex'): collision free, so the
\* checksum of a content is modelled by the content itself
Checksum(content) == <<"sha256", content>>

----------------------------------------------------------------------------
(* MessageStorage (job-processor/message-storage.js) *)
\* A store is a set of messages with metadata, at most one per validator
\* index; `touched` is the set of checksums touched in the update cycle.

\* the stored message of a validator index as a set: {} stands for `undefined`
findByValidatorIndex(store, index) ==
    {m \in store : m.data.validator_index = index}

removeOldForkVersionMessages(store, forkVersion) ==
    {m \in store : m.meta.forkVersion = forkVersion}

\* TRUE iff a stored message has this checksum (and it is then marked)
touchMessageWithChecksum(store, checksum) ==
    \E m \in store : m.meta.fileChecksum = checksum

removeOldMessages(store, touched) ==
    {m \in store : m.meta.fileChecksum \in touched}

RECURSIVE updateMessages(_, _, _)
updateMessages(store, new, stats) ==
    IF new = <<>> THEN [store |-> store, stats |-> stats]
    ELSE LET m == Head(new)
             old == {x \in store :
                        x.data.validator_index = m.data.validator_index}
         IN  updateMessages((store \ old) \cup {m}, Tail(new),
                 IF old = {}
                 THEN [stats EXCEPT !.added = @ + 1]
                 ELSE [stats EXCEPT !.updated = @ + 1])

----------------------------------------------------------------------------
(* Messages processor: reconciliation of the store with the source *)

NoStats == [added |-> 0, updated |-> 0]

\* loadNewMessages, the parsing loop over the folder listing.
\* acc = [messages, touched, invalid, calls, yielded]; yielded are the files
\* whose iteration reached `await new Promise((resolve) =>
\* setTimeout(resolve, 0))`, the last statement of the loop body, which every
\* `continue` jumps over
RECURSIVE ParseFiles(_, _, _, _)
ParseFiles(store, folder, forkVersion, acc) ==
    IF folder = <<>> THEN acc
    ELSE
      LET file == Head(folder)
          fileChecksum == Checksum(file.content)
          next ==
            IF file.content.kind = "empty"
            THEN [acc EXCEPT !.invalid = @ \cup {file.filename}]
            ELSE IF touchMessageWithChecksum(store, fileChecksum)
            THEN [acc EXCEPT !.touched = @ \cup {fileChecksum}]
            ELSE IF file.content.kind = "unparseable"
            THEN [acc EXCEPT !.invalid = @ \cup {file.filename}]
            ELSE IF file.content.kind = "undecryptable"
            THEN [acc EXCEPT !.invalid = @ \cup {file.filename}]
            ELSE IF file.content.kind = "invalidShape"
            THEN [acc EXCEPT !.invalid = @ \cup {file.filename}]
            ELSE [acc EXCEPT !.messages = Append(@,
                     [data |-> [validator_index |-> file.content.validator_index,
                                signature |-> file.content.signature],
                      meta |-> [fileChecksum |-> fileChecksum,
                                filename |-> file.filename,
                                forkVersion |-> forkVersion]]),
                       !.yielded = @ \cup {file.filename}]
      IN ParseFiles(store, Tail(folder), forkVersion, next)

\* mutant: the source is read and parsed in webhook mode too
loadNewMessages_AlwaysReads(messagesLocation, store, folder, forkVersion, invalid) ==
    ParseFiles(store, folder, forkVersion,
               [messages |-> <<>>, touched |-> {}, invalid |-> invalid,
                calls |-> {"readFolder"}, yielded |-> {}])

\* loadNewMessages: nothing is read when no MESSAGES_LOCATION is configured;
\* calls are the calls it makes to the outside
loadNewMessages(messagesLocation, store, folder, forkVersion, invalid) ==
    IF ~messagesLocation
    THEN [messages |-> <<>>, touched |-> {}, invalid |-> invalid,
          calls |-> {}, yielded |-> {}]
    ELSE ParseFiles(store, folder, forkVersion,
                    [messages |-> <<>>, touched |-> {}, invalid |-> invalid,
                     calls |-> {"readFolder"}, yielded |-> {}])

\* bls.verify of the signing root under the domain of `fork`
verifyFork(signature, fork) == signature = fork

\* mutant: only the current fork version is tried, there is no fallback
VerifySignature_NoFallback(signature, isDencun, capellaForkVersion, state) ==
    IF ~isDencun
    THEN [isValid |-> verifyFork(signature, state.current_version),
          tried |-> <<state.current_version>>]
    ELSE [isValid |-> verifyFork(signature, capellaForkVersion),
          tried |-> <<capellaForkVersion>>]

\* the fork versions verifyFork is called with for one message, in order
\* (each call writes a debug line), and the resulting isValid
VerifySignature(signature, isDencun, capellaForkVersion, state) ==
    IF ~isDencun
    THEN IF verifyFork(signature, state.current_version)
         THEN [isValid |-> TRUE, tried |-> <<state.current_version>>]
         ELSE [isValid |-> verifyFork(signature, state.previous_version),
               tried |-> <<state.current_version, state.previous_version>>]
    ELSE [isValid |-> verifyFork(signature, capellaForkVersion),
          tried |-> <<capellaForkVersion>>]

SignatureValid(signature, isDencun, capellaForkVersion, state) ==
    VerifySignature(signature, isDencun, capellaForkVersion, state).isValid

\* the line the loop of verify logs for a message it checked
LogLine(m, v) ==
    [filename |-> m.meta.filename, signature |-> m.data.signature,
     tried |-> v.tried, isValid |-> v.isValid]

\* mutant: a message with an invalid signature is skipped without a record
VerifyOne_InvalidDropped(m, info, isDencun, capellaForkVersion, state, acc) ==
    LET v == VerifySignature(m.data.signature, isDencun, capellaForkVersion,
                             state)
    IN
    IF info = "throw"
    THEN [acc EXCEPT !.invalid = @ \cup {m.meta.filename}]
    ELSE IF info = "exiting"
    THEN acc
    ELSE IF ~v.isValid
    THEN [acc EXCEPT !.log = Append(@, LogLine(m, v))]
    ELSE [acc EXCEPT !.valid = Append(@, m), !.log = Append(@, LogLine(m, v))]

\* one iteration of the loop of verify; info is what
\* consensusApi.validatorInfo answers: "active", "exiting" or "throw"
VerifyOne(m, info, isDencun, capellaForkVersion, state, acc) ==
    LET v == VerifySignature(m.data.signature, isDencun, capellaForkVersion,
                             state)
    IN
    IF info = "throw"
    THEN [acc EXCEPT !.invalid = @ \cup {m.meta.filename}]
    ELSE IF info = "exiting"
    THEN acc
    ELSE IF ~v.isValid
    THEN [acc EXCEPT !.invalid = @ \cup {m.meta.filename},
                     !.log = Append(@, LogLine(m, v))]
    ELSE [acc EXCEPT !.valid = Append(@, m), !.log = Append(@, LogLine(m, v))]

\* verify, the loop over the parsed messages
RECURSIVE VerifyMessages(_, _, _, _, _, _)
VerifyMessages(messages, isDencun, capellaForkVersion, state, validatorInfo, acc) ==
    IF messages = <<>> THEN acc
    ELSE
      LET m == Head(messages)
          info == validatorInfo[m.data.validator_index]
      IN VerifyMessages(Tail(messages), isDencun, capellaForkVersion, state,
                        validatorInfo,
                        VerifyOne(m, info, isDencun, capellaForkVersion,
                                  state, acc))

\* verify: nothing is asked of the consensus node when no MESSAGES_LOCATION
\* is configured; otherwise genesis and state are fetched, then the
\* validator info of every parsed message
verify(messagesLocation, messages, isDencun, capellaForkVersion, state, validatorInfo, invalid) ==
    IF ~messagesLocation
    THEN [valid |-> <<>>, invalid |-> invalid, log |-> <<>>, calls |-> {}]
    ELSE VerifyMessages(messages, isDencun, capellaForkVersion, state,
                        validatorInfo,
                        [valid |-> <<>>, invalid |-> invalid, log |-> <<>>,
                         calls |-> {"genesis", "state"} \cup
                                   IF messages = <<>> THEN {}
                                   ELSE {"validatorInfo"}])

Filenames(messages) == {messages[k].meta.filename : k \in DOMAIN messages}

\* mutant: the messages no file has touched are left in the store
loadToMemoryStorage_KeepsUntouched(messagesLocation, store, forkInfo, folder, state, validatorInfo) ==
    LET pruned == removeOldForkVersionMessages(store, forkInfo.currentVersion)
        loaded == loadNewMessages(messagesLocation, pruned, folder,
                                  forkInfo.currentVersion, {})
        verified == verify(messagesLocation, loaded.messages, forkInfo.isDencun,
                           forkInfo.capellaVersion, state, validatorInfo,
                           loaded.invalid)
        updated == updateMessages(pruned, verified.valid, NoStats)
    IN [store |-> updated.store,
        added |-> updated.stats.added,
        updated |-> updated.stats.updated,
        removed |-> 0,
        invalidExitMessageFiles |-> verified.invalid,
        parsed |-> Filenames(loaded.messages),
        valid |-> Filenames(verified.valid),
        log |-> verified.log,
        calls |-> loaded.calls \cup verified.calls,
        yielded |-> loaded.yielded]

\* mutant: the messages of another fork version are not pruned before the
\* source is read
loadToMemoryStorage_NoPrune(messagesLocation, store, forkInfo, folder, state, validatorInfo) ==
    LET loaded == loadNewMessages(messagesLocation, store, folder,
                                  forkInfo.currentVersion, {})
        verified == verify(messagesLocation, loaded.messages, forkInfo.isDencun,
                           forkInfo.capellaVersion, state, validatorInfo,
                           loaded.invalid)
        kept == removeOldMessages(store, loaded.touched)
        updated == updateMessages(kept, verified.valid, NoStats)
    IN [store |-> updated.store,
        added |-> updated.stats.added,
        updated |-> updated.stats.updated,
        removed |-> Cardinality(store) - Cardinality(kept),
        invalidExitMessageFiles |-> verified.invalid,
        parsed |-> Filenames(loaded.messages),
        valid |-> Filenames(verified.valid),
        log |-> verified.log,
        calls |-> loaded.calls \cup verified.calls,
        yielded |-> loaded.yielded]

\* loadToMemoryStorage when none of its awaited calls throws: the store it
\* leaves, the record it returns and, for the properties, the files it
\* parsed, the files it verified and the lines verify logged
loadToMemoryStorage(messagesLocation, store, forkInfo, folder, state, validatorInfo) ==
    LET pruned == removeOldForkVersionMessages(store, forkInfo.currentVersion)
        loaded == loadNewMessages(messagesLocation, pruned, folder,
                                  forkInfo.currentVersion, {})
        verified == verify(messagesLocation, loaded.messages, forkInfo.isDencun,
                           forkInfo.capellaVersion, state, validatorInfo,
                           loaded.invalid)
        kept == removeOldMessages(pruned, loaded.touched)
        updated == updateMessages(kept, verified.valid, NoStats)
    IN [store |-> updated.store,
        added |-> updated.stats.added,
        updated |-> updated.stats.updated,
        removed |-> Cardinality(pruned) - Cardinality(kept),
        invalidExitMessageFiles |-> verified.invalid,
        parsed |-> Filenames(loaded.messages),
        valid |-> Filenames(verified.valid),
        log |-> verified.log,
        calls |-> loaded.calls \cup verified.calls,
        yielded |-> loaded.yielded]

----------------------------------------------------------------------------
(* Job processor: state *)

VARIABLES
    config,                  \* the injected ConfigService, fixed at start-up
    pc,                      \* position of handleJob
    ix,                      \* loop index of the per-event loop
    processExitCount,        \* globalThis.processExitCount, the resume cursor
    messageStorage,          \* the MessageStorage passed to handleJob
    invalidExitMessageFiles, \* the messages processor's set of invalid files
    exitBusAddress,          \* execution-api: resolved exit bus address
    consensusAddress,        \* execution-api: resolved consensus address
    eventsForEject,          \* the list returned by executionApi.logs
    jobStatus,               \* "idle", "running", "finished" or "rejected"
    \* observation of the run, read by the properties only
    last,                    \* the latest iteration of the per-event loop
    curOutcome,              \* what happened to each position in the current cycle
    prevMissing,             \* positions without a message in the previous loop run
    completed,               \* positions that ever had a cursor-advancing outcome
    verifiedEvents,          \* positions that passed verifyEvent in this cycle
    startCursor,             \* the cursor when the current cycle started
    locatorAnswer,           \* the exit bus address the locator gave this cycle
    metricsResult,           \* how the metrics update of the cycle ended
    \* the chain the process runs against
    locatorAnswers,          \* the addresses the locator may answer with
    nodeLogs,                \* the results eth_getLogs may answer with
    inFlight,                \* the asynchronous calls of the per-event loop
                             \* that were made and have not settled yet
    fetched,                 \* logs() of this cycle: whether it answered, what
                             \* it logged, whether the node's result differs
                             \* from the latest before; and the latest result
    \* loadToMemoryStorage, run on its own (SpecReload)
    lastRun,                 \* the latest reconciliation cycle: inputs and results
    \* execution-api verifyEvent, run on its own (SpecVerify)
    fixture,                 \* the event, the chain content and the allowlist
    origin,                  \* the origin transaction the node returned
    verdict                  \* "pending", "ok" or the error verifyEvent threw

verifyVars == <<fixture, origin, verdict>>

reloadVars == <<lastRun>>

jobVars == <<config, pc, ix, processExitCount, messageStorage,
             invalidExitMessageFiles, exitBusAddress, consensusAddress,
          eventsForEject, jobStatus, last, curOutcome, prevMissing, completed,
          verifiedEvents, startCursor, locatorAnswer, metricsResult,
          locatorAnswers, nodeLogs, fetched, inFlight>>

vars == <<jobVars, verifyVars, reloadVars>>

Positions == 0..(NumEvents - 1)

Configs ==
    [DRY_RUN : BOOLEAN,
     VALIDATOR_EXIT_WEBHOOK : BOOLEAN,
     MESSAGES_LOCATION : BOOLEAN,
     DISABLE_SECURITY_DONT_USE_IN_PRODUCTION : BOOLEAN]

NoStep ==
    [ix |-> -1, before |-> Undefined, skipped |-> FALSE, outcome |-> "none",
     calls |-> {}, error |-> 0, success |-> 0, attempts |-> 0]

NoOutcome == [p \in Positions |-> "none"]

\* outcomes after which the request of the event needs no retry
AdvancingOutcomes == {"exiting", "dryRun", "webhook", "submitted"}

\* what curOutcome keeps of an outcome: "threw", "missing", "exiting" or
\* "handled"
Kept(outcome) ==
    IF outcome \in {"threw", "missing", "exiting"} THEN outcome ELSE "handled"

\* logs() has not answered in this cycle
NoFetch ==
    [answered |-> FALSE, result |-> <<>>, warned |-> {}, errors |-> 0,
     slid |-> FALSE]

\* the process after start-up, before the first job: nothing resolved or
\* fetched, the cursor unset, the store empty
IdleJob ==
    /\ pc = "idle"
    /\ ix = 0
    /\ processExitCount = Undefined
    /\ messageStorage = {}
    /\ invalidExitMessageFiles = {}
    /\ exitBusAddress = "undefined"
    /\ consensusAddress = "undefined"
    /\ eventsForEject = <<>>
    /\ jobStatus = "idle"
    /\ last = NoStep
    /\ curOutcome = NoOutcome
    /\ prevMissing = {}
    /\ completed = {}
    /\ verifiedEvents = {}
    /\ startCursor = Undefined
    /\ locatorAnswer = "none"
    /\ metricsResult = "none"
    /\ fetched = NoFetch
    /\ inFlight = {}

\* no reconciliation cycle has been run on its own
NoRun == [kind |-> "none"]

\* the addresses of the deployed exit bus oracle contracts, and the
\* consensus contract each of them answers getConsensusContract() with
ExitBusAddresses == {"exitBus", "exitBus2"}
getConsensusContract(to) ==
    CASE to = "exitBus" -> "consensus"
      [] to = "exitBus2" -> "consensus2"
      [] OTHER -> "undefined"

Init ==
    /\ config \in Configs
    /\ locatorAnswers = {"exitBus"}
    /\ nodeLogs = {<<>>}
    /\ lastRun = NoRun
    /\ IdleJob
    /\ fixture = "none"
    /\ origin = "none"
    /\ verdict = "pending"

----------------------------------------------------------------------------
(* Requests of the job processor *)

\* retry(3) in the middleware list of the library's request
RetryBudget == 3

\* the middlewares of `request` in lib.ts
LibRequestMiddlewares == <<"retry", "logger", "notOkError", "abort">>

\* the middlewares of the job processor's own `request`:
\* [loggerMiddleware(logger), notOkError(), abort(10000)]
JobRequestMiddlewares == <<"logger", "notOkError", "abort">>

\* the attempts a request makes when `failing` says that every attempt fails
\* with a transient error: the retry middleware repeats a failed attempt up
\* to its budget, without it the first failure is the result
Attempts(middlewares, failing) ==
    IF failing /\ \E k \in DOMAIN middlewares : middlewares[k] = "retry"
    THEN RetryBudget
    ELSE 1

\* sendValidatorExitRequest: the POST to
\* VALIDATOR_API/validator/exit-message/<pubkey> through the job processor's
\* request; post is how every attempt of it ends
sendValidatorExitRequest(post) ==
    [result |-> post,
     attempts |-> Attempts(JobRequestMiddlewares, post = "throw")]

----------------------------------------------------------------------------
(* Job processor: the per-event loop body *)

\* mutant: no try/catch around createExitSignedMessage, its exception
\* leaves exit after the error was counted
exit_CreationPropagates(store, event, submitRes, createRes) ==
    IF findByValidatorIndex(store, event.validatorIndex) = {}
    THEN [returned |-> "undefined", outcome |-> "missing",
          calls |-> {"createExitSignedMessage"}, error |-> 1, success |-> 0,
          threw |-> createRes = "throw"]
    ELSE IF submitRes = "ok"
    THEN [returned |-> "undefined", outcome |-> "submitted",
          calls |-> {"exitRequest"}, error |-> 0, success |-> 1,
          threw |-> FALSE]
    ELSE [returned |-> "undefined", outcome |-> "submitFailed",
          calls |-> {"exitRequest"}, error |-> 1, success |-> 0,
          threw |-> FALSE]

\* messagesProcessor.exit: every path ends without a return value.
\* No message: the error is counted, createExitSignedMessage is awaited in a
\* try/catch of its own (createRes is how it ended) and exit returns.
\* A message: consensusApi.exitRequest is awaited in a try/catch (submitRes
\* is how it ended) and the success or the error is counted.
\* threw: an exception leaves exit
exit(store, event, submitRes, createRes) ==
    IF findByValidatorIndex(store, event.validatorIndex) = {}
    THEN [returned |-> "undefined", outcome |-> "missing",
          calls |-> {"createExitSignedMessage"}, error |-> 1, success |-> 0,
          threw |-> FALSE]
    ELSE IF submitRes = "ok"
    THEN [returned |-> "undefined", outcome |-> "submitted",
          calls |-> {"exitRequest"}, error |-> 0, success |-> 1,
          threw |-> FALSE]
    ELSE [returned |-> "undefined", outcome |-> "submitFailed",
          calls |-> {"exitRequest"}, error |-> 1, success |-> 0,
          threw |-> FALSE]

\* mutant: the guard is lost, no event is ever skipped
AlreadyProcessed_Never(cursor, i) == FALSE

\* the guard `if (globalThis.processExitCount > ix) continue`
AlreadyProcessed(cursor, i) == JsGt(cursor, i)

\* mutant: no try/catch around the loop body, the exception leaves handleJob
OnException_Propagates(cursor, calls) ==
    [cursor |-> cursor, outcome |-> "threw", calls |-> calls,
     error |-> 0, success |-> 0, propagates |-> TRUE]

\* mutant: the catch block logs the exception but does not count it
OnException_NotCounted(cursor, calls) ==
    [cursor |-> cursor, outcome |-> "threw", calls |-> calls,
     error |-> 0, success |-> 0, propagates |-> FALSE]

\* the catch block of the loop body: log, count, go on with the next event
OnException(cursor, calls) ==
    [cursor |-> cursor, outcome |-> "threw", calls |-> calls,
     error |-> 1, success |-> 0, propagates |-> FALSE]

\* mutant: the cursor is advanced before the validator API call is awaited
ExitingBranch_AdvanceFirst(cursor, i, env) ==
    [cursor |-> i,
     outcome |-> IF env.post = "throw" THEN "threw" ELSE "exiting",
     calls |-> {"isExiting", "validatorApiPost"},
     error |-> IF env.post = "throw" THEN 1 ELSE 0, success |-> 0,
     propagates |-> FALSE]

\* the branch taken when consensusApi.isExiting answers true
ExitingBranch(cursor, i, env) ==
    IF env.post = "throw"
    THEN OnException(cursor, {"isExiting", "validatorApiPost"})
    ELSE [cursor |-> i, outcome |-> "exiting",
          calls |-> {"isExiting", "validatorApiPost"},
          error |-> 0, success |-> 0, propagates |-> FALSE]

\* the branch taken when config.DRY_RUN is set
DryRunBranch(cursor, i) ==
    [cursor |-> i, outcome |-> "dryRun", calls |-> {"isExiting"},
     error |-> 0, success |-> 0, propagates |-> FALSE]

\* the branch taken when config.VALIDATOR_EXIT_WEBHOOK is set
WebhookBranch(cursor, i, env) ==
    IF env.webhook = "throw"
    THEN OnException(cursor, {"isExiting", "webhook"})
    ELSE [cursor |-> cursor, outcome |-> "webhook",
          calls |-> {"isExiting", "webhook"},
          error |-> 0, success |-> 0, propagates |-> FALSE]

\* the else branch: messagesProcessor.exit and `if (result) cursor = ix`
DirectBranch(cursor, i, event, store, env) ==
    LET result == exit(store, event, env.submit, env.create)
        calls == {"isExiting"} \cup result.calls
    IN
    IF result.threw
    THEN [OnException(cursor, calls) EXCEPT !.error = @ + result.error]
    ELSE [cursor |-> IF Truthy(result.returned) THEN i ELSE cursor,
          outcome |-> result.outcome,
          calls |-> calls,
          error |-> result.error, success |-> result.success,
          propagates |-> FALSE]

\* the try block of one iteration, for an event that is not skipped
HandleBody(cfg, cursor, i, event, store, env) ==
    IF env.isExiting = "throw" THEN OnException(cursor, {"isExiting"})
    ELSE IF env.isExiting = "true" THEN ExitingBranch(cursor, i, env)
    ELSE IF cfg.DRY_RUN THEN DryRunBranch(cursor, i)
    ELSE IF cfg.VALIDATOR_EXIT_WEBHOOK THEN WebhookBranch(cursor, i, env)
    ELSE DirectBranch(cursor, i, event, store, env)

\* what the collaborators answer while one event is handled. One iteration
\* awaits isExiting and then at most one more collaborator: the validator API
\* when isExiting answered true; the webhook, createExitSignedMessage or the
\* consensus submission when it answered false; none when it threw. Only an
\* answer that is awaited is enumerated as a failure.
Envs ==
    {env \in [isExiting : {"true", "false", "throw"},
              post : {"ok", "throw"},
              webhook : {"ok", "throw"},
              submit : {"ok", "throw"},
              create : {"ok", "throw"}] :
        /\ env.isExiting = "throw" =>
                /\ env.post = "ok" /\ env.webhook = "ok"
                /\ env.submit = "ok" /\ env.create = "ok"
        /\ env.isExiting = "true" =>
                env.webhook = "ok" /\ env.submit = "ok" /\ env.create = "ok"
        /\ env.isExiting = "false" =>
                /\ env.post = "ok"
                /\ env.webhook = "ok" \/ env.submit = "ok"
                /\ env.create = "throw" =>
                        env.webhook = "ok" /\ env.submit = "ok"}

----------------------------------------------------------------------------
(* Job processor: handleJob, one action per awaited step *)

\* mutant: an exception of a step before the loop is swallowed and the job
\* goes on with the per-event loop
Rejected_GoesOn ==
    /\ pc' = "loop"
    /\ jobStatus' = "rejected"

\* handleJob rejects: the awaited call threw outside the loop's try block
Rejected ==
    /\ pc' = "idle"
    /\ jobStatus' = "rejected"

ForkInfos ==
    [currentVersion : ForkVersions,
     capellaVersion : {CapellaVersion},
     isDencun : BOOLEAN]

\* the message sources the job cycles are run against: messages signed
\* under the current fork version, for validators that are active or exiting
JobContents == {ExitContent(v, "fork1") : v \in FileIndices}
JobSources ==
    {src \in SourcesUpTo(NumFiles, JobContents, {"active", "exiting"}) :
        \A k \in DOMAIN src.folder :
            src.folder[k].content.validator_index
                = FileIndex(src.folder[k].filename)}
JobForkInfos == {fi \in ForkInfos : ~fi.isDencun /\ fi.currentVersion = "fork1"}
ChainState(forkInfo) ==
    [current_version |-> forkInfo.currentVersion,
     previous_version |-> forkInfo.currentVersion]

\* the job runner calls handleJob; 'Job started'
StartJob ==
    /\ pc = "idle"
    /\ pc' = "reload"
    /\ jobStatus' = "running"
    /\ prevMissing' = IF curOutcome = NoOutcome THEN prevMissing
                      ELSE {p \in Positions : curOutcome[p] = "missing"}
    /\ curOutcome' = NoOutcome
    /\ last' = NoStep
    /\ verifiedEvents' = {}
    /\ startCursor' = processExitCount
    /\ locatorAnswer' = "none"
    /\ metricsResult' = "none"
    /\ fetched' = [NoFetch EXCEPT !.result = fetched.result]
    /\ UNCHANGED <<verifyVars, reloadVars, config, locatorAnswers, nodeLogs, inFlight, ix,
                   processExitCount, messageStorage, invalidExitMessageFiles,
                   exitBusAddress, consensusAddress, eventsForEject, completed>>

\* await messageReloader.reloadAndVerifyMessages(messageStorage).
\* messageReloader is injected into makeJobProcessor; the reload is the
\* reconciliation of loadToMemoryStorage run with the fork info of the chain,
\* and it rejects when the source read or a consensus call throws. (The call
\* site in the reloader itself is a matter of the reload step, not of the
\* per-event loop.)
ReloadMessages ==
    /\ pc = "reload"
    /\ \E forkInfo \in JobForkInfos, src \in JobSources,
          res \in {"ok", "readFolderThrows", "consensusThrows"} :
        LET folder == src.folder
            validatorInfo == src.validatorInfo
            state == ChainState(forkInfo)
            pruned == removeOldForkVersionMessages(messageStorage,
                                                   forkInfo.currentVersion)
            loaded == loadNewMessages(config.MESSAGES_LOCATION, pruned, folder,
                                      forkInfo.currentVersion, {})
            done == loadToMemoryStorage(config.MESSAGES_LOCATION,
                        messageStorage, forkInfo, folder, state, validatorInfo)
        IN
        IF res = "ok" \/ ~config.MESSAGES_LOCATION
        THEN /\ messageStorage' = done.store
             /\ invalidExitMessageFiles' = done.invalidExitMessageFiles
             /\ pc' = "resolveExitBus"
             /\ UNCHANGED jobStatus
        ELSE /\ messageStorage' = pruned
             /\ invalidExitMessageFiles' =
                    IF res = "readFolderThrows" THEN {} ELSE loaded.invalid
             /\ Rejected
    /\ UNCHANGED <<verifyVars, reloadVars, config, locatorAnswers, nodeLogs, inFlight, fetched, ix,
                   processExitCount, exitBusAddress, consensusAddress,
                   eventsForEject, last, curOutcome, prevMissing, completed,
                   verifiedEvents, startCursor, locatorAnswer, metricsResult>>

\* await executionApi.resolveExitBusAddress()
ResolveExitBusAddress ==
    /\ pc = "resolveExitBus"
    /\ \E res \in {"ok", "throw"}, validated \in locatorAnswers :
        IF res = "ok"
        THEN /\ exitBusAddress' = validated
             /\ locatorAnswer' = validated
             /\ pc' = "resolveConsensus"
             /\ UNCHANGED jobStatus
        ELSE /\ UNCHANGED <<exitBusAddress, locatorAnswer>>
             /\ Rejected
    /\ UNCHANGED <<verifyVars, reloadVars, config, locatorAnswers, nodeLogs, inFlight, fetched, ix,
                   processExitCount, messageStorage, invalidExitMessageFiles,
                   consensusAddress, eventsForEject, last, curOutcome,
                   prevMissing, completed, verifiedEvents, startCursor,
                   metricsResult>>

\* mutant: the consensus address is resolved once and kept for later cycles
ResolveConsensusAddress_Cached ==
    /\ pc = "resolveConsensus"
    /\ \E res \in {"ok", "throw"} :
        IF res = "ok"
        THEN /\ consensusAddress' =
                    IF consensusAddress = "undefined"
                    THEN getConsensusContract(exitBusAddress)
                    ELSE consensusAddress
             /\ pc' = "latestBlock"
             /\ UNCHANGED jobStatus
        ELSE /\ UNCHANGED consensusAddress
             /\ Rejected
    /\ UNCHANGED <<verifyVars, reloadVars, config, locatorAnswers, nodeLogs, inFlight, fetched, ix,
                   processExitCount, messageStorage, invalidExitMessageFiles,
                   exitBusAddress, eventsForEject, last, curOutcome,
                   prevMissing, completed, verifiedEvents, startCursor,
                   locatorAnswer, metricsResult>>

\* await executionApi.resolveConsensusAddress(): eth_call getConsensusContract
\* to the module's exitBusAddress
ResolveConsensusAddress ==
    /\ pc = "resolveConsensus"
    /\ \E res \in {"ok", "throw"} :
        IF res = "ok"
        THEN /\ consensusAddress' = getConsensusContract(exitBusAddress)
             /\ pc' = "latestBlock"
             /\ UNCHANGED jobStatus
        ELSE /\ UNCHANGED consensusAddress
             /\ Rejected
    /\ UNCHANGED <<verifyVars, reloadVars, config, locatorAnswers, nodeLogs, inFlight, fetched, ix,
                   processExitCount, messageStorage, invalidExitMessageFiles,
                   exitBusAddress, eventsForEject, last, curOutcome,
                   prevMissing, completed, verifiedEvents, startCursor,
                   locatorAnswer, metricsResult>>

\* const toBlock = await executionApi.latestBlockNumber()
LatestBlockNumber ==
    /\ pc = "latestBlock"
    /\ \E res \in {"ok", "throw"} :
        IF res = "ok"
        THEN pc' = "logs" /\ UNCHANGED jobStatus
        ELSE Rejected
    /\ UNCHANGED <<verifyVars, reloadVars, config, locatorAnswers, nodeLogs, inFlight, fetched, ix,
                   processExitCount, messageStorage, invalidExitMessageFiles,
                   exitBusAddress, consensusAddress, eventsForEject, last,
                   curOutcome, prevMissing, completed, verifiedEvents,
                   startCursor, locatorAnswer, metricsResult>>

\* executionApi.logs: the eth_getLogs request and logsDTO, then
\* `return validatorsToEject` with the hard-coded list. The loop below that
\* statement (verifyEvent on each log of `result`, the warning of the insecure
\* mode, the push of the log's event) is never reached: nothing of `result`
\* is verified, warned about, counted or returned.
logs(res, result, disableSecurity) ==
    [threw |-> res = "throw", events |-> validatorsToEject, verified |-> {},
     warned |-> {}, errors |-> 0]

\* const eventsForEject = await executionApi.logs(fromBlock, toBlock)
Logs ==
    /\ pc = "logs"
    /\ \E res \in {"ok", "throw"}, result \in nodeLogs :
        LET r == logs(res, result,
                      config.DISABLE_SECURITY_DONT_USE_IN_PRODUCTION)
        IN
        IF ~r.threw
        THEN /\ eventsForEject' = r.events
             /\ verifiedEvents' = r.verified
             /\ fetched' = [answered |-> TRUE, result |-> result,
                            warned |-> r.warned, errors |-> r.errors,
                            slid |-> result # fetched.result]
             /\ ix' = 0
             /\ pc' = IF Len(r.events) = 0 THEN "metrics" ELSE "loop"
             /\ UNCHANGED jobStatus
        ELSE /\ UNCHANGED <<eventsForEject, verifiedEvents, fetched, ix>>
             /\ Rejected
    /\ UNCHANGED <<verifyVars, reloadVars, config, locatorAnswers, nodeLogs, inFlight,
                   processExitCount, messageStorage, invalidExitMessageFiles,
                   exitBusAddress, consensusAddress, last, curOutcome,
                   prevMissing, completed, startCursor, locatorAnswer,
                   metricsResult>>

\* one iteration of `for (const [ix, event] of eventsForEject.entries())`
HandleEvent ==
    /\ pc = "loop"
    /\ ix < Len(eventsForEject)
    /\ \E env \in Envs :
        LET event == eventsForEject[ix + 1]
            r == HandleBody(config, processExitCount, ix, event,
                            messageStorage, env)
        IN
        IF AlreadyProcessed(processExitCount, ix)
        THEN /\ last' = [NoStep EXCEPT !.ix = ix, !.before = processExitCount,
                                       !.skipped = TRUE, !.outcome = "skipped"]
             /\ curOutcome' = [curOutcome EXCEPT ![ix] = "skipped"]
             /\ pc' = IF ix + 1 < Len(eventsForEject) THEN "loop" ELSE "metrics"
             /\ ix' = ix + 1
             /\ UNCHANGED <<processExitCount, completed, jobStatus>>
        ELSE /\ processExitCount' = r.cursor
             /\ last' = [ix |-> ix, before |-> processExitCount,
                         skipped |-> FALSE, outcome |-> r.outcome,
                         calls |-> r.calls, error |-> r.error,
                         success |-> r.success,
                         attempts |->
                            IF "validatorApiPost" \in r.calls
                            THEN sendValidatorExitRequest(env.post).attempts
                            ELSE 0]
             /\ curOutcome' = [curOutcome EXCEPT ![ix] = Kept(r.outcome)]
             /\ completed' = IF r.outcome \in AdvancingOutcomes
                             THEN completed \cup {ix} ELSE completed
             /\ IF r.propagates
                THEN Rejected /\ UNCHANGED ix
                ELSE /\ pc' = IF ix + 1 < Len(eventsForEject)
                              THEN "loop" ELSE "metrics"
                     /\ ix' = ix + 1
                     /\ UNCHANGED jobStatus
    /\ UNCHANGED <<verifyVars, reloadVars, config, locatorAnswers, nodeLogs, inFlight, fetched,
                   messageStorage, invalidExitMessageFiles, exitBusAddress,
                   consensusAddress, eventsForEject, prevMissing,
                   verifiedEvents, startCursor, locatorAnswer, metricsResult>>

\* mutant: no try/catch around the metrics update, its exception leaves
\* handleJob
UpdateMetrics_Propagates ==
    /\ pc = "metrics"
    /\ \E res \in {"ok", "throw"} :
        /\ metricsResult' = res
        /\ IF res = "throw" THEN Rejected
           ELSE pc' = "idle" /\ jobStatus' = "finished"
    /\ UNCHANGED <<verifyVars, reloadVars, config, locatorAnswers, nodeLogs, inFlight, fetched, ix,
                   processExitCount, messageStorage, invalidExitMessageFiles,
                   exitBusAddress, consensusAddress, eventsForEject, last,
                   curOutcome, prevMissing, completed, verifiedEvents,
                   startCursor, locatorAnswer>>

\* the metrics update in its own try/catch, then 'Job finished':
\* when lastRequestedValidatorIndex or updateLeftMessages throws, the catch
\* block logs it
UpdateMetrics ==
    /\ pc = "metrics"
    /\ \E res \in {"ok", "throw"} :
        /\ metricsResult' = res
        /\ pc' = "idle"
        /\ jobStatus' = "finished"
    /\ UNCHANGED <<verifyVars, reloadVars, config, locatorAnswers, nodeLogs, inFlight, fetched, ix,
                   processExitCount, messageStorage, invalidExitMessageFiles,
                   exitBusAddress, consensusAddress, eventsForEject, last,
                   curOutcome, prevMissing, completed, verifiedEvents,
                   startCursor, locatorAnswer>>

Next ==
    \/ StartJob
    \/ ReloadMessages
    \/ ResolveExitBusAddress
    \/ ResolveConsensusAddress
    \/ LatestBlockNumber
    \/ Logs
    \/ HandleEvent
    \/ UpdateMetrics

Spec == Init /\ [][Next]_vars

\* the job cycles against a locator whose answer changes between cycles
\* (the exit bus oracle is redeployed), in dry-run mode
InitPipeline ==
    /\ config \in {c \in Configs : c.DRY_RUN /\ ~c.VALIDATOR_EXIT_WEBHOOK}
    /\ locatorAnswers = ExitBusAddresses
    /\ nodeLogs = {<<>>}
    /\ lastRun = NoRun
    /\ IdleJob
    /\ fixture = "none"
    /\ origin = "none"
    /\ verdict = "pending"

SpecPipeline == InitPipeline /\ [][Next]_vars

\* the job cycles against a node that answers eth_getLogs with any list of
\* up to MaxFetched logs, in dry-run mode
InitLogs ==
    /\ config \in {c \in Configs : c.DRY_RUN /\ ~c.VALIDATOR_EXIT_WEBHOOK}
    /\ locatorAnswers = {"exitBus"}
    /\ nodeLogs = LogResults(MaxFetched)
    /\ lastRun = NoRun
    /\ IdleJob
    /\ fixture = "none"
    /\ origin = "none"
    /\ verdict = "pending"

SpecLogs == InitLogs /\ [][Next]_vars

----------------------------------------------------------------------------
(* Job processor: the per-event loop, one step per suspension point *)

\* mutant: webhookProcessor.send is called without await
Awaited_WebhookDetached(call) == call # "webhook"

\* every asynchronous call of the loop body is awaited: isExiting (118),
\* sendValidatorExitRequest (119), webhookProcessor.send (132) and
\* messagesProcessor.exit (134) with, inside it, createExitSignedMessage and
\* consensusApi.exitRequest
Awaited(call) == TRUE

\* the answers of the collaborators in an iteration whose call `call` ended
\* with `res`, the calls before it having answered so that it was made
EnvOf(call, res) ==
    [isExiting |-> IF call = "isExiting" THEN res
                   ELSE IF call = "validatorApiPost" THEN "true" ELSE "false",
     post |-> IF call = "validatorApiPost" THEN res ELSE "ok",
     webhook |-> IF call = "webhook" THEN res ELSE "ok",
     submit |-> IF call = "exitRequest" THEN res ELSE "ok",
     create |-> IF call = "createExitSignedMessage" THEN res ELSE "ok"]

\* the call the loop body makes after isExiting has answered, if any
FollowUp(answer) ==
    HandleBody(config, processExitCount, ix, eventsForEject[ix + 1],
               messageStorage, EnvOf("isExiting", answer)).calls
        \ {"isExiting"}

\* the iteration at ix ends as HandleBody says for the answers env, and the
\* loop goes on with the next position
FinishEvent(env) ==
    LET r == HandleBody(config, processExitCount, ix, eventsForEject[ix + 1],
                        messageStorage, env)
    IN
    /\ processExitCount' = r.cursor
    /\ last' = [ix |-> ix, before |-> last.before, skipped |-> FALSE,
                outcome |-> r.outcome, calls |-> r.calls, error |-> r.error,
                success |-> r.success,
                attempts |-> IF "validatorApiPost" \in r.calls
                             THEN sendValidatorExitRequest(env.post).attempts
                             ELSE 0]
    /\ pc' = IF ix + 1 < Len(eventsForEject) THEN "loop" ELSE "metrics"
    /\ ix' = ix + 1

\* the loop body makes `call`: it is in flight, and when it is awaited the
\* loop is suspended on it; a call that is not awaited leaves the loop free
\* to go on as if it had returned
Make(call, others) ==
    /\ inFlight' = others \cup {[ix |-> ix, call |-> call]}
    /\ IF Awaited(call)
       THEN /\ pc' = "await"
            /\ last' = [last EXCEPT !.calls = @ \cup {call}]
            /\ UNCHANGED <<processExitCount, ix>>
       ELSE FinishEvent(EnvOf(call, "ok"))

\* the head of an iteration: the guard of line 113, then the call of
\* consensusApi.isExiting (118)
BeginEvent ==
    /\ pc = "loop"
    /\ ix < Len(eventsForEject)
    /\ IF AlreadyProcessed(processExitCount, ix)
       THEN /\ last' = [NoStep EXCEPT !.ix = ix, !.before = processExitCount,
                                      !.skipped = TRUE, !.outcome = "skipped"]
            /\ pc' = IF ix + 1 < Len(eventsForEject) THEN "loop" ELSE "metrics"
            /\ ix' = ix + 1
            /\ UNCHANGED <<processExitCount, inFlight>>
       ELSE /\ last' = [NoStep EXCEPT !.ix = ix, !.before = processExitCount,
                                      !.outcome = "pending",
                                      !.calls = {"isExiting"}]
            /\ inFlight' = inFlight \cup {[ix |-> ix, call |-> "isExiting"]}
            /\ pc' = "await"
            /\ UNCHANGED <<processExitCount, ix>>
    /\ UNCHANGED <<verifyVars, reloadVars, config, locatorAnswers, nodeLogs,
                   fetched, messageStorage, invalidExitMessageFiles,
                   exitBusAddress, consensusAddress, eventsForEject, jobStatus,
                   curOutcome, prevMissing, completed, verifiedEvents,
                   startCursor, locatorAnswer, metricsResult>>

\* a call in flight settles. When the loop is suspended on it, the loop
\* body resumes: after isExiting it makes the call of the branch it takes,
\* or ends the iteration when the branch makes none; after any other call
\* the iteration ends. A call nothing waits for just settles.
SettleCall ==
    /\ \E c \in inFlight :
        LET others == inFlight \ {c} IN
        IF pc = "await" /\ c.ix = ix
        THEN IF c.call = "isExiting"
             THEN \E answer \in {"true", "false", "throw"} :
                    IF FollowUp(answer) = {}
                    THEN /\ FinishEvent(EnvOf("isExiting", answer))
                         /\ inFlight' = others
                    ELSE \E call \in FollowUp(answer) : Make(call, others)
             ELSE \E res \in {"ok", "throw"} :
                    /\ FinishEvent(EnvOf(c.call, res))
                    /\ inFlight' = others
        ELSE /\ inFlight' = others
             /\ UNCHANGED <<processExitCount, last, pc, ix>>
    /\ UNCHANGED <<verifyVars, reloadVars, config, locatorAnswers, nodeLogs,
                   fetched, messageStorage, invalidExitMessageFiles,
                   exitBusAddress, consensusAddress, eventsForEject, jobStatus,
                   curOutcome, prevMissing, completed, verifiedEvents,
                   startCursor, locatorAnswer, metricsResult>>

\* the job cycles with the loop body taken one suspension point at a time
NextSteps ==
    \/ StartJob
    \/ ReloadMessages
    \/ ResolveExitBusAddress
    \/ ResolveConsensusAddress
    \/ LatestBlockNumber
    \/ Logs
    \/ BeginEvent
    \/ SettleCall
    \/ UpdateMetrics

SpecSteps == Init /\ [][NextSteps]_vars

----------------------------------------------------------------------------
(* Messages processor: reconciliation cycles run on their own *)

\* every content a file of the source may have
AllContents == UNION {FileContents(f) : f \in 1..NumFiles}

\* the listings readFolder may return
ReloadFolders ==
    {src.folder : src \in SourcesUpTo(NumFiles, AllContents, {"active"})}

\* the validators the messages of a listing are for
ListedValidators(folder) ==
    {folder[k].content.validator_index :
        k \in {j \in DOMAIN folder : folder[j].content.kind = "exit"}}

\* the answers of consensusApi.validatorInfo during one cycle: every
\* validator active, or one of the listed validators exiting or its lookup
\* failing
ReloadInfos(folder) ==
    LET allActive == [v \in FileIndices |-> "active"] IN
    {allActive} \cup
        {[allActive EXCEPT ![v] = a] :
            v \in ListedValidators(folder), a \in {"exiting", "throw"}}

\* consensusApi.state() of a chain that started at fork1: before the fork
\* both versions are fork1, after it the previous version is fork1
ForkedChainState(forkInfo) ==
    [current_version |-> forkInfo.currentVersion,
     previous_version |-> "fork1"]

\* one call of loadToMemoryStorage(messageStorage, forkInfo) that returns,
\* on the store `before` the call found
Reconcile(kind, before, folder, forkInfo, validatorInfo) ==
    LET state == ForkedChainState(forkInfo)
        done == loadToMemoryStorage(config.MESSAGES_LOCATION, before,
                                    forkInfo, folder, state, validatorInfo)
    IN
    /\ messageStorage' = done.store
    /\ invalidExitMessageFiles' = done.invalidExitMessageFiles
    /\ lastRun' = [kind |-> kind, folder |-> folder, forkInfo |-> forkInfo,
                   state |-> state, validatorInfo |-> validatorInfo,
                   before |-> before,
                   added |-> done.added, updated |-> done.updated,
                   removed |-> done.removed, parsed |-> done.parsed,
                   valid |-> done.valid, log |-> done.log,
                   calls |-> done.calls, yielded |-> done.yielded]

\* mutant: removeOldMessages() is called before verify is awaited, so a
\* cycle that fails in verify has already removed the untouched messages
ReconcileThrows_RemovesUntouched(folder, forkInfo, res) ==
    LET pruned == removeOldForkVersionMessages(messageStorage,
                                               forkInfo.currentVersion)
        loaded == loadNewMessages(config.MESSAGES_LOCATION, pruned, folder,
                                  forkInfo.currentVersion, {})
    IN
    /\ config.MESSAGES_LOCATION
    /\ messageStorage' =
            IF res = "readFolderThrows" THEN pruned
            ELSE removeOldMessages(pruned, loaded.touched)
    /\ invalidExitMessageFiles' =
            IF res = "readFolderThrows" THEN {} ELSE loaded.invalid
    /\ lastRun' = [kind |-> "threw", forkInfo |-> forkInfo,
                   before |-> lastRun.before]

\* one call of loadToMemoryStorage that throws: readFolder throws, or
\* consensusApi.genesis / state throws after the files were parsed
ReconcileThrows(folder, forkInfo, res) ==
    LET pruned == removeOldForkVersionMessages(messageStorage,
                                               forkInfo.currentVersion)
        loaded == loadNewMessages(config.MESSAGES_LOCATION, pruned, folder,
                                  forkInfo.currentVersion, {})
    IN
    /\ config.MESSAGES_LOCATION
    /\ messageStorage' = pruned
    /\ invalidExitMessageFiles' =
            IF res = "readFolderThrows" THEN {} ELSE loaded.invalid
    /\ lastRun' = [kind |-> "threw", forkInfo |-> forkInfo,
                   before |-> lastRun.before]

\* mutant: the messages no file has touched are removed when the cycle
\* starts, before the source is read
StartReload_RemovesUntouched ==
    /\ lastRun.kind \in {"none", "cycle", "repeat", "threw", "reloader"}
    /\ \E forkInfo \in ForkInfos :
        /\ invalidExitMessageFiles' = {}
        /\ messageStorage' = removeOldMessages(
                removeOldForkVersionMessages(messageStorage,
                                             forkInfo.currentVersion), {})
        /\ lastRun' = [kind |-> "started", forkInfo |-> forkInfo,
                       before |-> messageStorage]
    /\ UNCHANGED <<verifyVars, config, locatorAnswers, nodeLogs, inFlight, fetched, pc, ix,
                   processExitCount, exitBusAddress,
                   consensusAddress, eventsForEject, jobStatus, last,
                   curOutcome, prevMissing, completed, verifiedEvents,
                   startCursor, locatorAnswer, metricsResult>>

\* loadToMemoryStorage is entered and runs up to its first suspension point
\* (readFolder in loadNewMessages): invalidExitMessageFiles.clear(),
\* startUpdateCycle() and removeOldForkVersionMessages(currentVersion)
StartReload ==
    /\ lastRun.kind \in {"none", "cycle", "repeat", "threw", "reloader"}
    /\ \E forkInfo \in ForkInfos :
        /\ invalidExitMessageFiles' = {}
        /\ messageStorage' =
                removeOldForkVersionMessages(messageStorage,
                                             forkInfo.currentVersion)
        /\ lastRun' = [kind |-> "started", forkInfo |-> forkInfo,
                       before |-> messageStorage]
    /\ UNCHANGED <<verifyVars, config, locatorAnswers, nodeLogs, inFlight, fetched, pc, ix,
                   processExitCount, exitBusAddress,
                   consensusAddress, eventsForEject, jobStatus, last,
                   curOutcome, prevMissing, completed, verifiedEvents,
                   startCursor, locatorAnswer, metricsResult>>

\* the rest of the cycle over whatever the source holds now: the awaited
\* calls of loadNewMessages and verify, which leave the mapping of the store
\* as it is (a file with a stored checksum only marks the message as
\* touched), then removeOldMessages() and updateMessages() with no
\* suspension point between them
LoadToMemoryStorage ==
    /\ lastRun.kind = "started"
    /\ \E folder \in ReloadFolders :
        \/ \E validatorInfo \in ReloadInfos(folder) :
              Reconcile("cycle", lastRun.before, folder, lastRun.forkInfo,
                        validatorInfo)
        \/ ReconcileThrows(folder, lastRun.forkInfo, "consensusThrows")
        \/ /\ folder = <<>>
           /\ ReconcileThrows(folder, lastRun.forkInfo, "readFolderThrows")
    /\ UNCHANGED <<verifyVars, config, locatorAnswers, nodeLogs, inFlight, fetched, pc, ix,
                   processExitCount, exitBusAddress, consensusAddress,
                   eventsForEject, jobStatus, last, curOutcome, prevMissing,
                   completed, verifiedEvents, startCursor, locatorAnswer,
                   metricsResult>>

\* the whole next cycle when nothing has changed: the same listing, the
\* same fork info and the same answers of the consensus node
LoadToMemoryStorageAgain ==
    /\ lastRun.kind = "cycle"
    /\ Reconcile("repeat", messageStorage, lastRun.folder, lastRun.forkInfo,
                 lastRun.validatorInfo)
    /\ UNCHANGED <<verifyVars, config, locatorAnswers, nodeLogs, inFlight, fetched, pc, ix,
                   processExitCount, exitBusAddress, consensusAddress,
                   eventsForEject, jobStatus, last, curOutcome, prevMissing,
                   completed, verifiedEvents, startCursor, locatorAnswer,
                   metricsResult>>

InitReload ==
    /\ config \in {c \in Configs :
                     /\ ~c.DRY_RUN /\ ~c.VALIDATOR_EXIT_WEBHOOK
                     /\ ~c.DISABLE_SECURITY_DONT_USE_IN_PRODUCTION}
    /\ locatorAnswers = {"exitBus"}
    /\ nodeLogs = {<<>>}
    /\ lastRun = NoRun
    /\ IdleJob
    /\ fixture = "none"
    /\ origin = "none"
    /\ verdict = "pending"

NextReload ==
    \/ StartReload
    \/ LoadToMemoryStorage
    \/ LoadToMemoryStorageAgain

SpecReload == InitReload /\ [][NextReload]_vars

----------------------------------------------------------------------------
(* Message reloader: reloadAndVerifyMessages *)

\* the arguments reloadAndVerifyMessages passes to loadToMemoryStorage after
\* the store: none, so the parameter forkInfo is undefined
ReloaderArguments == <<>>

\* `const { isDencun, currentVersion, capellaVersion } = forkInfo` throws a
\* TypeError when forkInfo is undefined
DestructuringThrows(arguments) == Len(arguments) = 0

\* reloadAndVerifyMessages(messagesStorage): 'Presigned messages loading',
\* then await messagesProcessor.loadToMemoryStorage(messagesStorage).
\* loadToMemoryStorage clears invalidExitMessageFiles, starts the update
\* cycle and destructures forkInfo; with forkInfo missing that statement
\* throws before the store is pruned and before the source is read, the
\* promise rejects and so does reloadAndVerifyMessages. This happens
\* whatever the source holds and whatever the consensus node would answer.
ReloadAndVerifyMessages ==
    /\ lastRun.kind \in {"none", "cycle", "repeat", "threw", "reloader"}
    /\ invalidExitMessageFiles' = {}
    /\ IF DestructuringThrows(ReloaderArguments)
       THEN /\ UNCHANGED messageStorage
            /\ lastRun' = [kind |-> "reloader", outcome |-> "TypeError",
                           before |-> messageStorage, calls |-> {}]
       ELSE \E folder \in ReloadFolders :
              LET forkInfo == ReloaderArguments[1]
                  done == loadToMemoryStorage(config.MESSAGES_LOCATION,
                              messageStorage, forkInfo, folder,
                              ForkedChainState(forkInfo),
                              [v \in FileIndices |-> "active"])
              IN
              /\ messageStorage' = done.store
              /\ lastRun' = [kind |-> "reloader", outcome |-> "ok",
                             before |-> messageStorage, calls |-> done.calls]
    /\ UNCHANGED <<verifyVars, config, locatorAnswers, nodeLogs, inFlight, fetched, pc, ix,
                   processExitCount, exitBusAddress,
                   consensusAddress, eventsForEject, jobStatus, last,
                   curOutcome, prevMissing, completed, verifiedEvents,
                   startCursor, locatorAnswer, metricsResult>>

\* the messages processor with both of its callers: a caller that passes the
\* fork info, as the signature of loadToMemoryStorage asks, and the reloader
NextReloader ==
    \/ StartReload
    \/ LoadToMemoryStorage
    \/ LoadToMemoryStorageAgain
    \/ ReloadAndVerifyMessages

SpecReloader == InitReload /\ [][NextReloader]_vars

----------------------------------------------------------------------------
(* Properties of the job processor *)

Handled(step) == step.ix # -1 /\ ~step.skipped

\* the loop of the current cycle has run to its end
LoopDone == pc = "metrics" \/ (pc = "idle" /\ jobStatus = "finished")

\* the step was taken with consensusApi.isExiting answering true
AnsweredExiting(step) == "validatorApiPost" \in step.calls

\* the step dispatched the event: webhook forward or exit message submission
Dispatched(step) == step.calls \cap {"webhook", "exitRequest"} # {}

\* C1: an event at a position i <= ResumeCursor is skipped when the loop
\* reaches it (so an event whose handling set the cursor to its position is
\* not handled a second time in a later cycle).
C1_SkippedAtOrBelowCursor ==
    (last.ix # -1 /\ last.before # Undefined /\ last.ix <= last.before)
        => last.skipped

\* C2: in direct mode a missing message leaves the cursor where it was, and
\* every position that had no message in the previous loop run is handled
\* again in the next one, whatever happened to the positions after it.
C2_MissingMessageRetried ==
    /\ last.outcome = "missing" => processExitCount = last.before
    /\ LoopDone =>
         \A p \in prevMissing : curOutcome[p] \notin {"none", "skipped"}

\* C3: in direct mode with a stored message, the cursor is set to the
\* event's position iff the submission succeeded; a failed submission leaves
\* the cursor unchanged.
C3_CursorSetIffSubmitted ==
    /\ last.outcome = "submitted" => processExitCount = last.ix
    /\ last.outcome = "submitFailed" => processExitCount = last.before

\* C4: every position at or below the cursor has completed with a
\* cursor-advancing outcome; the cursor never passes an event that still
\* needs a retry.
C4_CursorOnlyPastCompleted ==
    processExitCount # Undefined =>
        \A p \in 0..processExitCount : p \in completed

\* C5: unless the insecure flag is set, every dispatched event has passed
\* verifyEvent in the same cycle.
C5_DispatchedEventsVerified ==
    (Dispatched(last) /\ ~config.DISABLE_SECURITY_DONT_USE_IN_PRODUCTION)
        => last.ix \in verifiedEvents

\* C6: an exception thrown while the event at position N is handled is
\* caught inside the loop: handleJob does not reject, the loop goes on with
\* position N + 1, every later position is handled in the same cycle and the
\* cycle reaches the metrics update.
C6_ExceptionIsolated ==
    /\ (\E p \in Positions : curOutcome[p] = "threw") => jobStatus # "rejected"
    /\ (last.outcome = "threw" /\ jobStatus = "running") =>
          \/ pc = "loop" /\ ix = last.ix + 1
          \/ pc = "metrics" /\ last.ix = NumEvents - 1
    /\ LoopDone =>
         \A n \in Positions : curOutcome[n] = "threw" =>
            \A j \in Positions : j > n => curOutcome[j] \notin {"none", "skipped"}

C6_Witness ==
    /\ pc = "metrics"
    /\ curOutcome[0] = "threw"
    /\ curOutcome[NumEvents - 1] = "handled"

\* C8: the resume cursor never decreases, within a cycle or between cycles.
C8_CursorNeverDecreases == [][processExitCount' >= processExitCount]_vars

C8_Witness ==
    /\ Handled(last)
    /\ last.before # Undefined
    /\ processExitCount > last.before

C10_DryRunNoSideEffect ==
    (config.DRY_RUN /\ Handled(last)) =>
        /\ last.calls \subseteq {"isExiting"}
        /\ last.outcome # "threw" => processExitCount = last.ix

\* C11: when a webhook target is configured, the validator is not exiting
\* and dry-run is off, a successful webhook send advances the cursor to the
\* event's position.
C11_WebhookAdvancesCursor ==
    last.outcome = "webhook" => processExitCount = last.ix

\* C12: the end-to-end scenario. Direct mode, dry-run off, fresh cursor at
\* the start of the cycle; the validator at position 0 is exiting, the one at
\* position 1 has no stored message, the one at position 2 has a stored
\* message whose submission succeeds: after position 2 is handled the cursor
\* is at position 2.
C12_ScenarioCursorAtLastSubmitted ==
    (/\ ~config.DRY_RUN /\ ~config.VALIDATOR_EXIT_WEBHOOK
     /\ startCursor = Undefined
     /\ curOutcome[0] = "exiting"
     /\ curOutcome[1] = "missing"
     /\ last.ix = 2 /\ last.outcome = "submitted")
        => processExitCount = 2

\* the awaited steps of handleJob that precede the per-event loop
PreLoopSteps ==
    {"reload", "resolveExitBus", "resolveConsensus", "latestBlock", "logs"}

\* C18: when a step before the event loop fails (message reload, exit bus or
\* consensus address resolution, latest block, event fetch) the cycle ends at
\* that step: no event was handled in the cycle, the cursor is what it was at
\* the start of the cycle, and the job is idle so that the next cycle starts
\* again from the reload with nothing carried over from the failed one.
C18_PreLoopFailureEndsCycle ==
    /\ jobStatus = "rejected" =>
          /\ pc = "idle"
          /\ last = NoStep
          /\ curOutcome = NoOutcome
          /\ processExitCount = startCursor
    /\ pc \in PreLoopSteps =>
          /\ jobStatus = "running"
          /\ last = NoStep
          /\ curOutcome = NoOutcome

C18_Witness ==
    /\ jobStatus = "rejected"
    /\ locatorAnswer # "none"
    /\ processExitCount # Undefined

\* the order of the steps of one cycle; a step before the loop may also end
\* the cycle
StepOrder ==
    {<<"idle", "reload">>, <<"reload", "resolveExitBus">>,
     <<"resolveExitBus", "resolveConsensus">>,
     <<"resolveConsensus", "latestBlock">>, <<"latestBlock", "logs">>,
     <<"logs", "loop">>, <<"logs", "metrics">>, <<"loop", "metrics">>,
     <<"metrics", "idle">>}
        \cup {<<p, "idle">> : p \in PreLoopSteps}

\* C19: the steps of a cycle run in the order reload, exit bus address,
\* consensus address, block range, events, per-event handling, metrics, one
\* at a time; and from the consensus address resolution on, the exit bus
\* address is the one the locator gave in this cycle and the consensus
\* address is the one that exit bus contract answers with.
C19_StepsInOrder ==
    /\ [][pc' # pc => <<pc, pc'>> \in StepOrder]_vars
    /\ [](pc \in {"resolveConsensus", "latestBlock", "logs", "loop", "metrics"}
            => (locatorAnswer # "none" /\ exitBusAddress = locatorAnswer))
    /\ [](pc \in {"latestBlock", "logs", "loop", "metrics"}
            => consensusAddress = getConsensusContract(locatorAnswer))

C19_Witness ==
    /\ pc = "metrics"
    /\ startCursor # Undefined
    /\ consensusAddress = "consensus2"

\* C20: a failure of the metrics update is caught: the cycle finishes
\* normally, and the metrics step leaves the cursor and the message store as
\* the event loop left them.
C20_MetricsFailureCaught ==
    /\ [](metricsResult = "throw" => (pc = "idle" /\ jobStatus = "finished"))
    /\ [][pc = "metrics" =>
            (/\ processExitCount' = processExitCount
             /\ messageStorage' = messageStorage)]_vars

C20_Witness ==
    /\ metricsResult = "throw"
    /\ jobStatus = "finished"
    /\ processExitCount # Undefined
    /\ messageStorage # {}

\* C21: when the handling of the event at position n raises an exception,
\* that handling leaves the cursor as it was, counts exactly one error, and
\* the events after it are handled as they would have been had the handling
\* of n succeeded and set the cursor to n: none of them is skipped, and each
\* of them has the same outcome, calls and counts under every answer of the
\* collaborators.
C21_FailureLeavesSiblingsAlone ==
    last.outcome = "threw" =>
        /\ processExitCount = last.before
        /\ last.error = 1
        /\ last.success = 0
        /\ jobStatus # "rejected"
        /\ pc = "loop" =>
              /\ ix = last.ix + 1
              /\ \A j \in ix..(Len(eventsForEject) - 1), env \in Envs :
                    LET event == eventsForEject[j + 1]
                        after == HandleBody(config, processExitCount, j,
                                            event, messageStorage, env)
                        hadItSucceeded == HandleBody(config, last.ix, j, event,
                                                     messageStorage, env)
                    IN
                    /\ ~AlreadyProcessed(processExitCount, j)
                    /\ ~AlreadyProcessed(last.ix, j)
                    /\ after.outcome = hadItSucceeded.outcome
                    /\ after.calls = hadItSucceeded.calls
                    /\ after.error = hadItSucceeded.error
                    /\ after.success = hadItSucceeded.success
                    /\ after.propagates = hadItSucceeded.propagates

C21_Witness ==
    /\ curOutcome[0] = "threw"
    /\ last.ix = 1
    /\ last.outcome = "submitted"
    /\ last.before = Undefined

\* messagesProcessor.exit was called in the step, and the step has ended
ExitCalled(step) ==
    /\ Handled(step)
    /\ step.outcome # "pending"
    /\ step.calls \cap {"createExitSignedMessage", "exitRequest"} # {}

\* C38: messagesProcessor.exit, called for the next event on the store as it
\* is, lets no exception out whether the message is missing, the creation of
\* a message fails or the submission fails, and counts exactly one exit
\* action: a success when a message was found and its submission succeeded,
\* an error otherwise. A step of the loop in which exit was called therefore
\* never ends in the catch block of handleJob and has counted exactly one
\* exit action, a success exactly when the message was submitted.
C38_ExitHandlesItsFailures ==
    /\ (pc = "loop" /\ ix < Len(eventsForEject)) =>
          \A submitRes \in {"ok", "throw"}, createRes \in {"ok", "throw"} :
             LET event == eventsForEject[ix + 1]
                 found == findByValidatorIndex(messageStorage,
                                               event.validatorIndex) # {}
                 r == exit(messageStorage, event, submitRes, createRes)
             IN
             /\ ~r.threw
             /\ r.error + r.success = 1
             /\ r.success = 1 <=> (found /\ submitRes = "ok")
    /\ ExitCalled(last) =>
          /\ last.outcome \in {"missing", "submitted", "submitFailed"}
          /\ last.error + last.success = 1
          /\ last.success = 1 <=> last.outcome = "submitted"

\* a step in which the submission of a found message failed
C38_Witness ==
    /\ ExitCalled(last)
    /\ last.outcome = "submitFailed"
    /\ last.error = 1

\* C35: when the POST to the validator API fails with a transient error on
\* every attempt, the failure surfaces after as many attempts as the retry
\* budget allows.
C35_ValidatorApiPostRetried ==
    (Handled(last) /\ "validatorApiPost" \in last.calls
                   /\ last.outcome = "threw")
        => last.attempts = RetryBudget

----------------------------------------------------------------------------
(* Properties of the event fetch *)

\* the events of the logs of `result` that pass verification (every log when
\* the security checks are disabled), in the order of `result`
PassedLogs(result, disableSecurity) ==
    LET kept == SelectSeq(result, LAMBDA l : disableSecurity \/ l.genuine) IN
    [k \in 1..Len(kept) |-> EventOf(kept[k])]

\* the positions of the returned list that hold the event of the log
ReturnedAt(log) ==
    {p \in 0..(Len(eventsForEject) - 1) : eventsForEject[p + 1] = EventOf(log)}

\* C22 (events): with the security checks on, a fetched log that
\* verifyEvent rejects is counted as an error and its event is not returned,
\* and every log after it in the fetched list that verifyEvent accepts is
\* verified and returned.
C22_RejectionKeepsLaterItems ==
    (fetched.answered /\ ~config.DISABLE_SECURITY_DONT_USE_IN_PRODUCTION) =>
        LET result == fetched.result
            rejected == {k \in DOMAIN result : ~result[k].genuine}
        IN
        /\ fetched.errors = Cardinality(rejected)
        /\ \A k \in rejected :
              /\ ReturnedAt(result[k]) = {}
              /\ \A j \in DOMAIN result :
                    (j > k /\ result[j].genuine) =>
                        ReturnedAt(result[j]) \cap verifiedEvents # {}

\* C25: every event logs() returns has either passed verifyEvent or was
\* warned about when it was let through.
C25_NoSilentBypass ==
    fetched.answered =>
        \A p \in 0..(Len(eventsForEject) - 1) :
            p \in verifiedEvents \/ p \in fetched.warned

\* C26: the list the per-event loop runs over is the list of the fetched
\* logs that passed verification, in the order they were fetched, and the
\* loop takes its positions one after the other from the first.
C26_HandledAreFetchedInOrder ==
    /\ [](fetched.answered =>
            eventsForEject =
                PassedLogs(fetched.result,
                           config.DISABLE_SECURITY_DONT_USE_IN_PRODUCTION))
    /\ [][(pc = "loop" /\ pc' # "idle") =>
            (last'.ix = ix /\ ix' = ix + 1)]_vars

\* the list of logs the node returned in this cycle differs from the list
\* it returned the time before: the block window has slid
WindowSlid == fetched.answered /\ fetched.slid

----------------------------------------------------------------------------
(* Properties of the reconciliation *)

\* a reconciliation cycle has completed over a message source
CycleCompleted ==
    lastRun.kind \in {"cycle", "repeat"} /\ config.MESSAGES_LOCATION

\* the files of the cycle's listing
ListedFiles == {lastRun.folder[k] : k \in DOMAIN lastRun.folder}

\* the messages that were in the store at the start of the cycle and carry
\* the current fork version
CurrentBefore ==
    {m \in lastRun.before : m.meta.forkVersion = lastRun.forkInfo.currentVersion}

\* the file's checksum was already stored: the cycle does not parse it
Deduped(file) ==
    /\ file.content.kind # "empty"
    /\ \E m \in CurrentBefore : m.meta.fileChecksum = Checksum(file.content)

\* the signature policy: the signature is good under the fixed fork when
\* the Dencun flag is set, else under the current or the previous fork
PolicyAccepts(signature) ==
    IF lastRun.forkInfo.isDencun
    THEN verifyFork(signature, lastRun.forkInfo.capellaVersion)
    ELSE \/ verifyFork(signature, lastRun.state.current_version)
         \/ verifyFork(signature, lastRun.state.previous_version)

\* the file is a message that the cycle parsed anew
NewMessage(file) == file.content.kind = "exit" /\ ~Deduped(file)

\* the file is a new message that passed the signature verification
PassedVerification(file) ==
    /\ NewMessage(file)
    /\ lastRun.validatorInfo[file.content.validator_index] = "active"
    /\ PolicyAccepts(file.content.signature)

\* the file is a new message for a validator reported as exiting
ForExitingValidator(file) ==
    /\ NewMessage(file)
    /\ lastRun.validatorInfo[file.content.validator_index] = "exiting"

\* the cycle rejected the file
RejectedFile(file) ==
    \/ file.content.kind = "empty"
    \/ /\ ~Deduped(file)
       /\ \/ file.content.kind \in
                {"unparseable", "undecryptable", "invalidShape"}
          \/ /\ file.content.kind = "exit"
             /\ lastRun.validatorInfo[file.content.validator_index] = "throw"
          \/ /\ file.content.kind = "exit"
             /\ lastRun.validatorInfo[file.content.validator_index] = "active"
             /\ ~PolicyAccepts(file.content.signature)

StoredChecksums == {m.meta.fileChecksum : m \in messageStorage}

\* the validator accepted the file's message: it passed the signature
\* verification, or its validator is exiting and it counts as valid
AcceptedByValidator(file) ==
    PassedVerification(file) \/ ForExitingValidator(file)

\* C13: after a completed cycle the store holds at most one message per
\* validator index, and its keys are exactly the validator indices of the
\* listed files whose message the validator accepted in the cycle or that
\* were retained by the checksum dedup.
C13_StoreIsAcceptedOrRetained ==
    CycleCompleted =>
        /\ \A m1, m2 \in messageStorage :
              m1.data.validator_index = m2.data.validator_index => m1 = m2
        /\ {m.data.validator_index : m \in messageStorage}
              = {f.content.validator_index :
                    f \in {g \in ListedFiles :
                              Deduped(g) \/ AcceptedByValidator(g)}}

\* C14: a second cycle over the unchanged source, with the unchanged fork
\* info and the same answers of the consensus node, reports added = 0 and
\* updated = 0, leaves the store as the first cycle left it, and parses no
\* file whose checksum is stored.
C14_RepeatedCycleChangesNothing ==
    (lastRun.kind = "repeat" /\ config.MESSAGES_LOCATION) =>
        /\ lastRun.added = 0
        /\ lastRun.updated = 0
        /\ messageStorage = lastRun.before
        /\ \A f \in ListedFiles : Deduped(f) => f.filename \notin lastRun.parsed

\* C15: with the Dencun flag only the fixed (Capella) fork version is
\* tried; without it the current fork version is tried first and the
\* previous one only when the current one failed; at most two versions are
\* tried, and the message is accepted iff the last one tried verifies it (so
\* a message signed under the previous fork is accepted after the
\* current-fork check failed).
C15_ForkFallbackOrder ==
    CycleCompleted =>
        \A k \in DOMAIN lastRun.log :
            LET e == lastRun.log[k]
                current == lastRun.state.current_version
                previous == lastRun.state.previous_version
            IN
            /\ Len(e.tried) \in {1, 2}
            /\ lastRun.forkInfo.isDencun =>
                  e.tried = <<lastRun.forkInfo.capellaVersion>>
            /\ ~lastRun.forkInfo.isDencun =>
                  /\ e.tried[1] = current
                  /\ Len(e.tried) = 2 <=> ~verifyFork(e.signature, current)
                  /\ Len(e.tried) = 2 => e.tried[2] = previous
            /\ e.isValid = verifyFork(e.signature, e.tried[Len(e.tried)])
            /\ e.isValid <=> e.filename \in lastRun.valid
            /\ e.isValid <=> e.filename \notin invalidExitMessageFiles

C15_Witness ==
    /\ CycleCompleted
    /\ \E k \in DOMAIN lastRun.log :
          /\ lastRun.log[k].tried = <<"fork2", "fork1">>
          /\ lastRun.log[k].isValid
          /\ lastRun.log[k].filename \in lastRun.valid

\* C16: the new message of a validator reported as exiting is accepted
\* without a signature check: no fork version is tried for it, it is among
\* the verified messages and so in the store, and it is not recorded as
\* invalid.
C16_ExitingAccepted ==
    CycleCompleted =>
        \A f \in ListedFiles : ForExitingValidator(f) =>
            /\ \A k \in DOMAIN lastRun.log :
                  lastRun.log[k].filename # f.filename
            /\ f.filename \in lastRun.valid
            /\ Checksum(f.content) \in StoredChecksums
            /\ f.filename \notin invalidExitMessageFiles

\* C17: every file rejected in a cycle (empty, unparsable, undecryptable,
\* of invalid shape, with an invalid signature, or whose validator lookup
\* failed) has its filename in the invalid set of the cycle and is not in
\* the store.
C17_RejectedFilesRecorded ==
    CycleCompleted =>
        \A f \in ListedFiles : RejectedFile(f) =>
            /\ f.filename \in invalidExitMessageFiles
            /\ Checksum(f.content) \notin StoredChecksums

C17_Witness ==
    /\ CycleCompleted
    /\ lastRun.before # {}
    /\ \E f, g \in ListedFiles :
          /\ f.content.kind = "exit"
          /\ lastRun.validatorInfo[f.content.validator_index] = "active"
          /\ RejectedFile(f)
          /\ g.content.kind # "exit"
          /\ RejectedFile(g)

\* no file of the cycle's listing has the checksum of the stored message
SourceAbsent(m) ==
    \A f \in ListedFiles : Checksum(f.content) # m.meta.fileChecksum

\* C28 as stated: a message that was in the store when the cycle started
\* and whose file is not in the source is not in the store when the cycle
\* completes, and `removed` is the number of such messages.
C28_AbsentRemovedAndCounted ==
    CycleCompleted =>
        /\ \A m \in lastRun.before : SourceAbsent(m) =>
                m.meta.fileChecksum \notin StoredChecksums
        /\ lastRun.removed =
                Cardinality({m \in lastRun.before : SourceAbsent(m)})

\* C28, amended: such a message is not in the store when the cycle
\* completes, and `removed` is the number of such messages that carry the
\* cycle's current fork version (a message of another fork version is
\* pruned at the start of the cycle and not counted).
C28_AbsentRemovedCurrentCounted ==
    CycleCompleted =>
        /\ \A m \in lastRun.before : SourceAbsent(m) =>
                m.meta.fileChecksum \notin StoredChecksums
        /\ lastRun.removed =
                Cardinality({m \in CurrentBefore : SourceAbsent(m)})

C28_Witness ==
    /\ CycleCompleted
    /\ lastRun.removed = 1
    /\ messageStorage # {}
    /\ \E m \in CurrentBefore : SourceAbsent(m)

\* the stored message is of another fork version than the cycle's current one
Stale(m) == m.meta.forkVersion # lastRun.forkInfo.currentVersion

\* C29: when a cycle has completed, every stored message carries the
\* cycle's current fork version; and a listed file whose message was stored
\* under another fork version was parsed in the cycle and, its validator
\* being active, its signature was checked.
C29_StoreCarriesCurrentFork ==
    CycleCompleted =>
        /\ \A m \in messageStorage : ~Stale(m)
        /\ \A m \in lastRun.before, f \in ListedFiles :
              (Stale(m) /\ Checksum(f.content) = m.meta.fileChecksum) =>
                /\ f.filename \in lastRun.parsed
                /\ lastRun.validatorInfo[f.content.validator_index] = "active"
                      => \E k \in DOMAIN lastRun.log :
                            lastRun.log[k].filename = f.filename

C29_Witness ==
    /\ CycleCompleted
    /\ messageStorage # {}
    /\ \E m \in lastRun.before, f \in ListedFiles :
          /\ Stale(m)
          /\ Checksum(f.content) = m.meta.fileChecksum
          /\ f.filename \in lastRun.valid

\* the files of the cycle whose message was newly verified
VerifiedFiles == {f \in ListedFiles : f.filename \in lastRun.valid}

\* the validator had a message in the store when the cycle started
StoredBefore(index) == findByValidatorIndex(lastRun.before, index) # {}

MidCycle == lastRun.kind = "started"

\* C27 as stated: a message that was in the store before the cycle, whose
\* file is in the source unchanged and whose validator has that message in
\* the store again when the cycle completes, is in the store at every
\* suspension point of the cycle.
C27_NeverMissingMidCycle ==
    [][(MidCycle /\ lastRun'.kind = "cycle") =>
        \A m \in lastRun.before :
            (/\ \E k \in DOMAIN lastRun'.folder :
                    Checksum(lastRun'.folder[k].content) = m.meta.fileChecksum
             /\ \E n \in messageStorage' :
                    /\ n.data.validator_index = m.data.validator_index
                    /\ n.meta.fileChecksum = m.meta.fileChecksum)
            => findByValidatorIndex(messageStorage,
                                    m.data.validator_index) # {}]_vars

\* C27, amended: at every suspension point of a cycle the store is the store
\* the cycle found without the messages of another fork version than the
\* cycle's current one: nothing else has been removed and nothing inserted
\* yet, so the removal of the untouched messages and the insertion of the
\* verified ones both come after the last suspension point.
C27_MidCycleStoreIsPrunedStore ==
    MidCycle => messageStorage = CurrentBefore

C27_Witness ==
    /\ MidCycle
    /\ messageStorage # {}
    /\ messageStorage = lastRun.before

\* the latest reconciliation cycle failed partway: readFolder, or
\* consensusApi.genesis / state, threw after the cycle had begun
CycleFailed == lastRun.kind = "threw"

\* C37 as stated: after a cycle that failed partway the store is the store
\* the cycle found.
C37_FailedCycleLeavesStore ==
    CycleFailed => messageStorage = lastRun.before

\* C37, amended: after a cycle that failed partway the store is the store the
\* cycle found without the messages of another fork version than the current
\* one, which were pruned before the source was read: no message of the
\* current fork version has been removed and none has been inserted.
C37_FailedCycleLeavesPrunedStore ==
    CycleFailed =>
        /\ messageStorage = CurrentBefore
        /\ messageStorage \subseteq lastRun.before

\* a failed cycle that found messages of another fork version than the
\* current one in the store
C37_Witness ==
    /\ CycleFailed
    /\ lastRun.before # {}
    /\ messageStorage # lastRun.before

\* C34: in a completed cycle every iteration of the parsing loop, one per
\* file of the listing, has reached the yield to the scheduler before the
\* next iteration started.
C34_EveryIterationYields ==
    CycleCompleted =>
        \A file \in ListedFiles : file.filename \in lastRun.yielded

\* webhook-only mode: no MESSAGES_LOCATION is configured
WebhookOnly == ~config.MESSAGES_LOCATION

C36_ReloaderCompletes ==
    lastRun.kind = "reloader" =>
        /\ lastRun.outcome = "ok"
        /\ \E forkVersion \in ForkVersions :
              \A m \in messageStorage : m.meta.forkVersion = forkVersion

----------------------------------------------------------------------------
(* Execution API: verifyEvent *)

\* bounds of the fixtures verifyEvent is run on
MaxDataLen == 3
MaxLogs == 2

\* executionApi: the window searched for the ConsensusReached event
ORACLE_FRAME_BLOCKS == 7200

HexDigits == {"a", "b"}

RECURSIVE HexStrings(_)
HexStrings(n) ==
    IF n = 0 THEN {<<>>}
    ELSE LET shorter == HexStrings(n - 1) IN
         shorter \cup {Append(h, d) : h \in {x \in shorter : Len(x) = n - 1},
                                       d \in HexDigits}

\* String.prototype.slice(2)
Slice2(str) == SubSeq(str, 3, Len(str))

\* String.prototype.includes
Includes(str, part) ==
    \E k \in 0..(Len(str) - Len(part)) :
        SubSeq(str, k + 1, k + Len(part)) = part

\* String.prototype.toLowerCase on the letters of an address
LowerChar(c) ==
    CASE c = "A" -> "a" [] c = "B" -> "b" [] c = "C" -> "c" [] c = "D" -> "d"
      [] OTHER -> c
toLowerCase(str) == [k \in DOMAIN str |-> LowerChar(str[k])]

\* keccak256(defaultAbiCoder.encode(tuple)): collision free, so the hash of
\* a report is modelled by the report itself
ReportHash(consensusVersion, refSlot, requestsCount, dataFormat, data) ==
    <<"keccak256", consensusVersion, refSlot, requestsCount, dataFormat, data>>

\* the event's block number, handed to verifyEvent as toBlock
EventBlock == 10000

RefSlots == {1, 2}

\* the decoded call data of a finalization transaction: submitReportData
FinalizationTxs ==
    [consensusVersion : {1}, refSlot : {1}, requestsCount : {1},
     dataFormat : {1}, data : HexStrings(MaxDataLen)]

\* the reports some ConsensusReached event or submitReport call may carry;
\* their data differ in one byte only
KnownHashes ==
    {ReportHash(1, 1, 1, 1, d) : d \in {<<"a", "b">>, <<"b", "b">>}}

\* a ConsensusReached log of the consensus contract
ConsensusLogs ==
    [refSlot : RefSlots,
     report : KnownHashes,
     blockNumber : {EventBlock - ORACLE_FRAME_BLOCKS - 1,
                    EventBlock - ORACLE_FRAME_BLOCKS}]

RECURSIVE LogLists(_)
LogLists(n) ==
    IF n = 0 THEN {<<>>}
    ELSE LET shorter == LogLists(n - 1) IN
         shorter \cup {Append(l, e) : l \in {x \in shorter : Len(x) = n - 1},
                                       e \in ConsensusLogs}

\* an origin transaction: its decoded submitReport call and the address
\* recovered from its signature
OriginTxs ==
    [report : KnownHashes,
     signer : {<<"A", "b">>, <<"c", "D">>}]

Allowlists ==
    {<<>>, << <<"a", "B">> >>, << <<"c", "c">>, <<"C", "d">> >>}

Fixtures ==
    [validatorPubkey : {<<"0", "x", "a", "b">>, <<"0", "x", "b">>},
     finalizationTx : FinalizationTxs,
     chainLogs : LogLists(MaxLogs),
     ORACLE_ADDRESSES_ALLOWLIST : Allowlists]

\* eth_getLogs with the refSlot topic over toBlock - ORACLE_FRAME_BLOCKS .. toBlock
RECURSIVE GetLogs(_, _, _)
GetLogs(chainLogs, toBlock, refSlot) ==
    IF chainLogs = <<>> THEN <<>>
    ELSE LET l == Head(chainLogs)
             rest == GetLogs(Tail(chainLogs), toBlock, refSlot)
         IN  IF /\ l.refSlot = refSlot
                /\ l.blockNumber >= toBlock - ORACLE_FRAME_BLOCKS
                /\ l.blockNumber <= toBlock
             THEN <<l>> \o rest
             ELSE rest

\* decoded.find((event) => event.args.report === hash): the index of the
\* first such log, 0 when there is none
RECURSIVE FindReport(_, _, _)
FindReport(decoded, hash, k) ==
    IF k > Len(decoded) THEN 0
    ELSE IF decoded[k].report = hash THEN k
    ELSE FindReport(decoded, hash, k + 1)

\* mutant: the first ConsensusReached log of the window for the refSlot is
\* taken, whatever report it carries
consensusReachedTransactionHash_AnyReport(chainLogs, toBlock, refSlot, hash) ==
    GetLogs(chainLogs, toBlock, refSlot) # <<>>

\* consensusReachedTransactionHash: TRUE iff a transaction hash is returned
consensusReachedTransactionHash(chainLogs, toBlock, refSlot, hash) ==
    FindReport(GetLogs(chainLogs, toBlock, refSlot), hash, 1) # 0

\* mutant: the allowlist entries and the recovered address are compared as
\* they are written
SignerTrusted_CaseSensitive(allowlist, recoveredAddress) ==
    \E k \in DOMAIN allowlist : allowlist[k] = recoveredAddress

\* the allowlist check at the end of verifyEvent
SignerTrusted(allowlist, recoveredAddress) ==
    \E k \in DOMAIN allowlist :
        toLowerCase(allowlist[k]) = toLowerCase(recoveredAddress)

\* mutant: the origin transaction's report is not compared with the hash
verifyEvent_NoOriginCheck(fx, toBlock, originTx) ==
    LET tx == fx.finalizationTx
        dataHash == ReportHash(tx.consensusVersion, tx.refSlot,
                               tx.requestsCount, tx.dataFormat, tx.data)
    IN
    IF ~Includes(tx.data, Slice2(fx.validatorPubkey))
    THEN "Pubkey for exit was not found in finalized tx data"
    ELSE IF ~consensusReachedTransactionHash(fx.chainLogs, toBlock,
                                             tx.refSlot, dataHash)
    THEN "Failed to find transaction by report hash"
    ELSE IF ~SignerTrusted(fx.ORACLE_ADDRESSES_ALLOWLIST, originTx.signer)
    THEN "Transaction is not signed by a trusted Oracle"
    ELSE "ok"

\* verifyEvent: "ok" when it returns, else the error it throws; originTx is
\* what the node answers to getTransaction(originTxHash)
verifyEvent(fx, toBlock, originTx) ==
    LET tx == fx.finalizationTx
        dataHash == ReportHash(tx.consensusVersion, tx.refSlot,
                               tx.requestsCount, tx.dataFormat, tx.data)
    IN
    IF ~Includes(tx.data, Slice2(fx.validatorPubkey))
    THEN "Pubkey for exit was not found in finalized tx data"
    ELSE IF ~consensusReachedTransactionHash(fx.chainLogs, toBlock,
                                             tx.refSlot, dataHash)
    THEN "Failed to find transaction by report hash"
    ELSE IF originTx.report # dataHash
    THEN "Report data hash mismatch"
    ELSE IF ~SignerTrusted(fx.ORACLE_ADDRESSES_ALLOWLIST, originTx.signer)
    THEN "Transaction is not signed by a trusted Oracle"
    ELSE "ok"

InitVerify ==
    /\ config = [DRY_RUN |-> FALSE, VALIDATOR_EXIT_WEBHOOK |-> FALSE,
                 MESSAGES_LOCATION |-> TRUE,
                 DISABLE_SECURITY_DONT_USE_IN_PRODUCTION |-> FALSE]
    /\ locatorAnswers = {"exitBus"}
    /\ nodeLogs = {<<>>}
    /\ lastRun = NoRun
    /\ IdleJob
    /\ fixture \in Fixtures
    /\ origin \in OriginTxs
    /\ verdict = "pending"

\* await verifyEvent(validatorPubkey, log.transactionHash, blockNumber)
VerifyEvent ==
    /\ verdict = "pending"
    /\ verdict' = verifyEvent(fixture, EventBlock, origin)
    /\ UNCHANGED <<jobVars, reloadVars, fixture, origin>>

NextVerify == VerifyEvent

SpecVerify == InitVerify /\ [][NextVerify]_vars

----------------------------------------------------------------------------
(* Properties of verifyEvent *)

FixtureHash ==
    ReportHash(fixture.finalizationTx.consensusVersion,
               fixture.finalizationTx.refSlot,
               fixture.finalizationTx.requestsCount,
               fixture.finalizationTx.dataFormat,
               fixture.finalizationTx.data)

PubkeyInReport ==
    Includes(fixture.finalizationTx.data, Slice2(fixture.validatorPubkey))

ConsensusReachedInWindow ==
    \E k \in DOMAIN fixture.chainLogs :
        /\ fixture.chainLogs[k].refSlot = fixture.finalizationTx.refSlot
        /\ fixture.chainLogs[k].report = FixtureHash
        /\ fixture.chainLogs[k].blockNumber \in
               (EventBlock - ORACLE_FRAME_BLOCKS)..EventBlock

OriginReportMatches == origin.report = FixtureHash

SignerInAllowlist ==
    \E k \in DOMAIN fixture.ORACLE_ADDRESSES_ALLOWLIST :
        toLowerCase(fixture.ORACLE_ADDRESSES_ALLOWLIST[k])
            = toLowerCase(origin.signer)

\* C7: verifyEvent returns without error iff the pubkey (0x stripped) is a
\* substring of the report data, a ConsensusReached event for the refSlot
\* with the recomputed report hash exists in the window, the origin
\* transaction's report equals that hash and the recovered signer is in the
\* allowlist; it rejects when any one of them fails.
C7_AcceptsIffAllChecksPass ==
    verdict # "pending" =>
        (verdict = "ok" <=>
            /\ PubkeyInReport
            /\ ConsensusReachedInWindow
            /\ OriginReportMatches
            /\ SignerInAllowlist)

C7_Witness ==
    /\ verdict = "ok"
    /\ Len(fixture.chainLogs) = MaxLogs
    /\ fixture.chainLogs[1].report # FixtureHash

\* the two byte strings have the same length and differ in one byte
OneByteApart(d, e) ==
    /\ Len(d) = Len(e)
    /\ Cardinality({k \in DOMAIN d : d[k] # e[k]}) = 1

\* verifyEvent has run on a fixture whose report data is one byte away from
\* data it accepts with the same event, logs, allowlist and origin
\* transaction
AlteredFromAccepted ==
    /\ verdict # "pending"
    /\ \E d \in HexStrings(MaxDataLen) :
          /\ OneByteApart(d, fixture.finalizationTx.data)
          /\ verifyEvent([fixture EXCEPT !.finalizationTx.data = d],
                         EventBlock, origin) = "ok"

\* C23 as stated: altering one byte of the report data of an accepted
\* fixture makes verifyEvent reject with 'Report data hash mismatch'.
C23_FlipCausesHashMismatch ==
    AlteredFromAccepted =>
        verdict = "Report data hash mismatch"

\* C23, amended: altering one byte of the report data of an accepted
\* fixture makes verifyEvent reject, with the error of the first check the
\* altered data fails: 'Pubkey for exit was not found' when the pubkey is no
\* longer in the data, else 'Failed to find transaction by report hash'
\* when no ConsensusReached log of the window carries the hash of the
\* altered data, and 'Report data hash mismatch' only when such a log exists.
C23_FlipIsRejectedByFirstFailingCheck ==
    AlteredFromAccepted =>
        verdict =
            IF ~PubkeyInReport
            THEN "Pubkey for exit was not found in finalized tx data"
            ELSE IF ~ConsensusReachedInWindow
            THEN "Failed to find transaction by report hash"
            ELSE "Report data hash mismatch"

C23_Witness ==
    /\ AlteredFromAccepted
    /\ PubkeyInReport
    /\ verdict = "Failed to find transaction by report hash"

\* the pairs of a capital hex letter and its small letter
CasePairs == {<<"A", "a">>, <<"B", "b">>, <<"C", "c">>, <<"D", "d">>}

\* the two addresses are the same up to the case of their letters
SameAddress(x, y) ==
    /\ Len(x) = Len(y)
    /\ \A k \in DOMAIN x :
          x[k] = y[k] \/ <<x[k], y[k]>> \in CasePairs \/ <<y[k], x[k]>> \in CasePairs

\* C24: when verifyEvent gets to its signer check, it passes exactly when
\* some allowlist entry is the recovered address up to letter case.
C24_AllowlistIgnoresCase ==
    verdict \in {"ok", "Transaction is not signed by a trusted Oracle"} =>
        (verdict = "ok" <=>
            \E k \in DOMAIN fixture.ORACLE_ADDRESSES_ALLOWLIST :
                SameAddress(fixture.ORACLE_ADDRESSES_ALLOWLIST[k], origin.signer))

C24_Witness ==
    /\ verdict = "ok"
    /\ \A k \in DOMAIN fixture.ORACLE_ADDRESSES_ALLOWLIST :
          fixture.ORACLE_ADDRESSES_ALLOWLIST[k] # origin.signer

====
